---- MODULE Spec2Model ----
(***************************************************************************)
(* Model of brighten_icon.py: a one-shot script that decodes an icon,      *)
(* enhances brightness, contrast and saturation of its RGB planes,         *)
(* re-attaches the alpha plane, composites the sharp result over a blurred *)
(* copy of itself and saves the result as PNG.                             *)
(*                                                                         *)
(* The script's position is pc (the source line about to run).  The       *)
(* imaging calls are modelled by what the imaging library computes on      *)
(* 8-bit pixels; the library's float arithmetic is carried out here in     *)
(* exact rationals (numerator / FactorDen).                                *)
(***************************************************************************)
EXTENDS Integers, Sequences, FiniteSets

VARIABLES pc, inFile, outFile, outFile0, img, bands, rgb_img, bands_new,
          brightened, glow, final, stdout, exitCode, writes, calls, done,
          err, arg, res

vars == <<pc, inFile, outFile, outFile0, img, bands, rgb_img, bands_new,
          brightened, glow, final, stdout, exitCode, writes, calls, done,
          err, arg, res>>

(***************************************************************************)
(* Bounds of the model and constants of the program.                       *)
(***************************************************************************)
\* largest number of pixels (width * height) of an input image
MaxPixels == 4

\* 8-bit channels: the largest channel value of an 'RGBA' image
MaxChannel == 255

\* enhancement factors, in units of 1 / FactorDen
FactorDen == 10
BrightnessFactor == 14
ContrastFactor == 13
ColorFactor == 15

\* ImageFilter.GaussianBlur(radius=4), approximated by BlurPasses box blurs
GlowRadius == 4
BlurPasses == 3

\* AlphaComposite: extra bits of precision of the integer blend
PrecisionBits == 7

Pow2(n) == 2 ^ n

Max(x, y) == IF x > y THEN x ELSE y
Min(x, y) == IF x < y THEN x ELSE y

(***************************************************************************)
(* Images: a mode, a size and one tuple of channel values per position.    *)
(***************************************************************************)
Pos(w, h) == (1 .. w) \X (1 .. h)

NoImage == [mode |-> "none", w |-> 0, h |-> 0, px |-> <<>>]

NBands(mode) ==
    CASE mode = "RGBA" -> 4
      [] mode = "RGB" -> 3
      [] mode = "L" -> 1
      [] OTHER -> 0

\* the pixel map is compared with itself so that it is tabulated once,
\* not recomputed at every later access
MkImage(mode, w, h, px) ==
    [mode |-> mode, w |-> w, h |-> h, px |-> IF px = px THEN px ELSE <<>>]

\* Image.new(mode, size, color)
New(mode, w, h, color) ==
    MkImage(mode, w, h, [p \in Pos(w, h) |-> [c \in 1 .. NBands(mode) |-> color]])

\* Image.convert('RGBA') of a decoded file: an image without alpha gains a
\* fully opaque alpha plane; an 'RGBA' image is copied.
ConvertRGBA(im) ==
    MkImage("RGBA", im.w, im.h,
        [p \in Pos(im.w, im.h) |->
            CASE im.mode = "RGBA" -> im.px[p]
            [] im.mode = "RGB" -> im.px[p] \o <<MaxChannel>>
            [] OTHER -> <<im.px[p][1], im.px[p][1], im.px[p][1], MaxChannel>>])

\* one band of Image.split()
GetBand(im, i) ==
    MkImage("L", im.w, im.h,
        [p \in Pos(im.w, im.h) |->
            <<im.px[p][i]>>])

\* Image.split()
Split(im) == [i \in 1 .. NBands(im.mode) |-> GetBand(im, i)]

SameSize(im1, im2) == im1.w = im2.w /\ im1.h = im2.h

\* Image.merge raises ValueError unless every band is 'L' of one size
MergeOK(mode, bs) ==
    /\ Len(bs) = NBands(mode)
    /\ \A i \in 1 .. Len(bs) : bs[i].mode = "L" /\ SameSize(bs[i], bs[1])

\* Image.merge(mode, bands)
Merge(mode, bs) ==
    MkImage(mode, bs[1].w, bs[1].h,
        [p \in Pos(bs[1].w, bs[1].h) |->
            [c \in 1 .. Len(bs) |-> bs[c].px[p][1]]])

\* ITU-R 601-2 luma of Image.convert('L')
Luma(rgb) ==
    (rgb[1] * 19595 + rgb[2] * 38470 + rgb[3] * 7471 + 32768) \div 65536

\* Image.convert('L') of an 'RGB' image
ConvertL(im) ==
    MkImage("L", im.w, im.h,
        [p \in Pos(im.w, im.h) |->
            <<Luma(im.px[p])>>])

\* Image.convert('RGB') of an 'L' image
ConvertLToRGB(im) ==
    MkImage("RGB", im.w, im.h,
        [p \in Pos(im.w, im.h) |->
            <<im.px[p][1], im.px[p][1], im.px[p][1]>>])


\* a blend that stores the low 8 bits instead of clipping
BlendChannelWraps(in1, in2, num) ==
    LET t == in1 * FactorDen + num * (in2 - in1)
    IN IF t <= 0 THEN 0 ELSE (t \div FactorDen) % (MaxChannel + 1)

\* Image.blend on one channel: in1 + alpha * (in2 - in1), clipped to 8 bits
\* and truncated, with alpha = num / FactorDen
BlendChannel(in1, in2, num) ==
    LET t == in1 * FactorDen + num * (in2 - in1)
    IN IF t <= 0 THEN 0
       ELSE IF t >= MaxChannel * FactorDen THEN MaxChannel
       ELSE t \div FactorDen

\* Image.blend(im1, im2, alpha)
Blend(im1, im2, num) ==
    MkImage(im2.mode, im2.w, im2.h,
        [p \in Pos(im2.w, im2.h) |->
            [c \in 1 .. NBands(im2.mode) |->
            BlendChannel(im1.px[p][c], im2.px[p][c], num)]])

RECURSIVE SumOver(_, _)
SumOver(f, S) ==
    IF S = {} THEN 0
    ELSE LET x == CHOOSE y \in S : TRUE
         IN f[x] + SumOver(f, S \ {x})

\* int(ImageStat.Stat(image.convert('L')).mean[0] + 0.5)
MeanGray(im) ==
    LET l == ConvertL(im)
        n == im.w * im.h
        s == SumOver([p \in Pos(im.w, im.h) |-> l.px[p][1]], Pos(im.w, im.h))
    IN (2 * s + n) \div (2 * n)

\* ImageEnhance.Brightness(image).enhance(factor)
Brightness(im, num) == Blend(New(im.mode, im.w, im.h, 0), im, num)

\* ImageEnhance.Contrast(image).enhance(factor)
Contrast(im, num) ==
    Blend(ConvertLToRGB(New("L", im.w, im.h, MeanGray(im))), im, num)

\* ImageEnhance.Color(image).enhance(factor)
Color(im, num) == Blend(ConvertLToRGB(ConvertL(im)), im, num)

(***************************************************************************)
(* ImageFilter.GaussianBlur: BlurPasses box blurs along x, then along y.   *)
(***************************************************************************)
\* integer part of the box radius: floor((sqrt(12 * sigma2 + 1) - 1) / 2)
\* with sigma2 = radius * radius / passes
BoxRadius ==
    CHOOSE l \in 0 .. 2 * GlowRadius :
        /\ (2 * l + 1) * (2 * l + 1) * BlurPasses
              <= 12 * GlowRadius * GlowRadius + BlurPasses
        /\ (2 * l + 3) * (2 * l + 3) * BlurPasses
              > 12 * GlowRadius * GlowRadius + BlurPasses

\* fractional part of the box radius, BoxFracNum / BoxFracDen
BoxFracNum ==
    (2 * BoxRadius + 1)
        * (3 * GlowRadius * GlowRadius - BoxRadius * (BoxRadius + 1) * BlurPasses)
BoxFracDen ==
    6 * ((BoxRadius + 1) * (BoxRadius + 1) * BlurPasses - GlowRadius * GlowRadius)

\* weight of a pixel inside the box: (1 << 24) / (floatRadius * 2 + 1)
\* = (2^24 * BoxFracDen) \div d, d = (2 * BoxRadius + 1) * BoxFracDen
\* + 2 * BoxFracNum, computed by quotient and remainder to stay within
\* 32-bit integers
BoxWW ==
    LET d == (2 * BoxRadius + 1) * BoxFracDen + 2 * BoxFracNum
    IN (Pow2(24) \div d) * BoxFracDen + ((Pow2(24) % d) * BoxFracDen) \div d

\* weight of the two pixels just outside the box
BoxFW == (Pow2(24) - (2 * BoxRadius + 1) * BoxWW) \div 2

\* a column index clamped to the line: the edge pixels extend outwards
ClampX(im, x) == Max(1, Min(im.w, x))

RECURSIVE LineAcc(_, _, _, _, _)
\* sum of channel c over columns lo .. hi of row y, edges extended
LineAcc(im, y, c, lo, hi) ==
    IF lo > hi THEN 0
    ELSE im.px[<<ClampX(im, lo), y>>][c] + LineAcc(im, y, c, lo + 1, hi)

\* ImagingLineBoxBlur: one output channel value
BoxBlurAt(im, x, y, c) ==
    LET acc == LineAcc(im, y, c, x - BoxRadius, x + BoxRadius)
        far == im.px[<<ClampX(im, x - BoxRadius - 1), y>>][c]
                 + im.px[<<ClampX(im, x + BoxRadius + 1), y>>][c]
        \* (acc * ww + far * fw + (1 << 23)) >> 24, an unsigned 32-bit value
        \* in the source, computed here on the high and low 12 bits of the
        \* weights
        hi == acc * (BoxWW \div Pow2(12)) + far * (BoxFW \div Pow2(12)) + Pow2(11)
        lo == acc * (BoxWW % Pow2(12)) + far * (BoxFW % Pow2(12))
    IN (hi + lo \div Pow2(12)) \div Pow2(12)

\* ImagingHorizontalBoxBlur
HorizontalBoxBlur(im) ==
    MkImage(im.mode, im.w, im.h,
        [p \in Pos(im.w, im.h) |->
            [c \in 1 .. NBands(im.mode) |-> BoxBlurAt(im, p[1], p[2], c)]])

RECURSIVE BoxPasses(_, _)
BoxPasses(im, n) ==
    IF n = 0 THEN im ELSE BoxPasses(HorizontalBoxBlur(im), n - 1)

\* ImagingTranspose
Transpose(im) ==
    MkImage(im.mode, im.h, im.w,
        [p \in Pos(im.h, im.w) |->
            im.px[<<p[2], p[1]>>]])


\* a blur that does not transpose its result back
GaussianBlurTransposed(im) ==
    BoxPasses(Transpose(BoxPasses(im, BlurPasses)), BlurPasses)

\* image.filter(ImageFilter.GaussianBlur(radius=GlowRadius))
GaussianBlur(im) ==
    Transpose(BoxPasses(Transpose(BoxPasses(im, BlurPasses)), BlurPasses))

(***************************************************************************)
(* Image.alpha_composite(im1, im2): im2 (source) over im1 (destination).   *)
(***************************************************************************)
\* SHIFTFORDIV255(a): ((a >> 8) + a) >> 8
ShiftForDiv255(x) == ((x \div 256) + x) \div 256


\* the two layers taken in the other order: destination over source
CompositePixelSwapped(dst, src) ==
    IF dst[4] = 0 THEN src
    ELSE LET blend == src[4] * (MaxChannel - dst[4])
             outa255 == dst[4] * MaxChannel + blend
             coef1 ==
                 (dst[4] * MaxChannel * MaxChannel * Pow2(PrecisionBits))
                     \div outa255
             coef2 == MaxChannel * Pow2(PrecisionBits) - coef1
             Ch(c) ==
                 ShiftForDiv255(dst[c] * coef1 + src[c] * coef2
                                  + 128 * Pow2(PrecisionBits))
                     \div Pow2(PrecisionBits)
         IN <<Ch(1), Ch(2), Ch(3), ShiftForDiv255(outa255 + 128)>>

\* the colour channels divided without the rounding term
CompositePixelNoRound(dst, src) ==
    IF src[4] = 0 THEN dst
    ELSE LET blend == dst[4] * (MaxChannel - src[4])
             outa255 == src[4] * MaxChannel + blend
             coef1 ==
                 (src[4] * MaxChannel * MaxChannel * Pow2(PrecisionBits))
                     \div outa255
             coef2 == MaxChannel * Pow2(PrecisionBits) - coef1
             Ch(c) ==
                 ShiftForDiv255(src[c] * coef1 + dst[c] * coef2)
                     \div Pow2(PrecisionBits)
         IN <<Ch(1), Ch(2), Ch(3), ShiftForDiv255(outa255 + 128)>>

\* the result's alpha divided without the rounding term
CompositePixelTruncAlpha(dst, src) ==
    IF src[4] = 0 THEN dst
    ELSE LET blend == dst[4] * (MaxChannel - src[4])
             outa255 == src[4] * MaxChannel + blend
             coef1 ==
                 (src[4] * MaxChannel * MaxChannel * Pow2(PrecisionBits))
                     \div outa255
             coef2 == MaxChannel * Pow2(PrecisionBits) - coef1
             Ch(c) ==
                 ShiftForDiv255(src[c] * coef1 + dst[c] * coef2
                                  + 128 * Pow2(PrecisionBits))
                     \div Pow2(PrecisionBits)
         IN <<Ch(1), Ch(2), Ch(3), ShiftForDiv255(outa255)>>

\* ImagingAlphaComposite on one pixel
CompositePixel(dst, src) ==
    IF src[4] = 0 THEN dst
    ELSE LET blend == dst[4] * (MaxChannel - src[4])
             outa255 == src[4] * MaxChannel + blend
             coef1 ==
                 (src[4] * MaxChannel * MaxChannel * Pow2(PrecisionBits))
                     \div outa255
             coef2 == MaxChannel * Pow2(PrecisionBits) - coef1
             Ch(c) ==
                 ShiftForDiv255(src[c] * coef1 + dst[c] * coef2
                                  + 128 * Pow2(PrecisionBits))
                     \div Pow2(PrecisionBits)
         IN <<Ch(1), Ch(2), Ch(3), ShiftForDiv255(outa255 + 128)>>

\* Image.alpha_composite raises ValueError unless both are 'RGBA' of one size
CompositeOK(im1, im2) ==
    im1.mode = "RGBA" /\ im2.mode = "RGBA" /\ SameSize(im1, im2)

\* Image.alpha_composite(im1, im2)
AlphaComposite(im1, im2) ==
    MkImage("RGBA", im1.w, im1.h,
        [p \in Pos(im1.w, im1.h) |->
            CompositePixel(im1.px[p], im2.px[p])])

(***************************************************************************)
(* The pipeline of brighten_icon as a function of the decoded image, with  *)
(* the brightness factor as a parameter.                                   *)
(***************************************************************************)
\* lines 19-22: the RGB working image
WorkingRGB(im) == Merge("RGB", SubSeq(Split(im), 1, 3))

\* lines 25-34: brightness, then contrast, then saturation
EnhanceRGB(rgb, bnum) ==
    Color(Contrast(Brightness(rgb, bnum), ContrastFactor), ColorFactor)

\* lines 19-40: the enhanced image, the input's alpha plane re-attached
Enhanced(im, bnum) ==
    Merge("RGBA", Split(EnhanceRGB(WorkingRGB(im), bnum)) \o <<GetBand(im, 4)>>)

\* lines 19-48: the image handed to save
PipelineOutput(im, bnum) ==
    LET e == Enhanced(im, bnum)
    IN AlphaComposite(GaussianBlur(e), e)

(***************************************************************************)
(* Inputs.                                                                 *)
(***************************************************************************)
Shapes == {s \in (1 .. MaxPixels) \X (1 .. MaxPixels) : s[1] * s[2] <= MaxPixels}

\* transparent, opaque neon blue, half-transparent neon blue
PaletteRGBA == {<<0, 0, 0, 0>>, <<0, 150, 255, 255>>, <<0, 150, 255, 128>>}

PaletteRGB == {<<0, 150, 255>>, <<200, 40, 40>>}

ImagesOver(mode, palette) ==
    UNION {{[mode |-> mode, w |-> s[1], h |-> s[2], px |-> f] :
                f \in [Pos(s[1], s[2]) -> palette]} : s \in Shapes}

\* what Image.open can find at the input path
InputFiles ==
    {[state |-> "missing", data |-> NoImage], [state |-> "corrupt", data |-> NoImage]}
        \cup {[state |-> "png", data |-> im] :
                 im \in ImagesOver("RGBA", PaletteRGBA) \cup ImagesOver("RGB", PaletteRGB)}

\* what is at the output path before the run
OutputFiles ==
    {[state |-> "absent", data |-> NoImage], [state |-> "stale", data |-> NoImage]}

NoArg == [set |-> FALSE]

(***************************************************************************)
(* The run of the script.                                                  *)
(***************************************************************************)
\* the statements of brighten_icon, in source order
BodyOrder ==
    <<"open", "split", "merge_rgb", "brightness", "contrast", "color",
      "split_new", "merge_rgba", "copy", "blur", "composite", "save",
      "print_success", "print_brightness", "print_contrast",
      "print_saturation", "print_glow", "return">>

BodyPcs == {BodyOrder[i] : i \in 1 .. Len(BodyOrder)}

IndexOf(p) == CHOOSE i \in 1 .. Len(BodyOrder) : BodyOrder[i] = p


\* a body that falls from the brightness stage straight to the saturation stage
SuccSkipsContrast(p) ==
    IF p = "brightness" THEN "color" ELSE BodyOrder[IndexOf(p) + 1]

\* the statement after p
Succ(p) == BodyOrder[IndexOf(p) + 1]

Init ==
    /\ pc = "main"
    /\ inFile \in InputFiles
    /\ outFile \in OutputFiles
    /\ outFile0 = outFile
    /\ img = NoImage
    /\ bands = <<>>
    /\ rgb_img = NoImage
    /\ bands_new = <<>>
    /\ brightened = NoImage
    /\ glow = NoImage
    /\ final = NoImage
    /\ stdout = <<>>
    /\ exitCode = -1
    /\ writes = 0
    /\ calls = 0
    /\ done = <<>>
    /\ err = ""
    /\ arg = NoArg
    /\ res = NoArg

\* a statement of the body completes: the next one is up
Step(stage) ==
    /\ pc' = Succ(pc)
    /\ done' = Append(done, stage)

\* line 63: brighten_icon(input_file, output_file)
Call ==
    /\ pc = "main"
    /\ pc' = "open"
    /\ calls' = calls + 1
    /\ UNCHANGED <<inFile, outFile, outFile0, img, bands, rgb_img, bands_new,
                   brightened, glow, final, stdout, exitCode, writes, done,
                   err, arg, res>>

\* line 16: img = Image.open(input_path).convert('RGBA')
Open ==
    /\ pc = "open"
    /\ inFile.state = "png"
    /\ img' = ConvertRGBA(inFile.data)
    /\ Step("open")
    /\ UNCHANGED <<inFile, outFile, outFile0, bands, rgb_img, bands_new,
                   brightened, glow, final, stdout, exitCode, writes, calls,
                   err, arg, res>>


\* a decode failure met only after the output file was created
OpenFailsAfterCreate ==
    /\ pc = "open"
    /\ inFile.state # "png"
    /\ pc' = "except"
    /\ err' = "FileNotFoundError"
    /\ outFile' = [state |-> "partial", data |-> NoImage]
    /\ UNCHANGED <<inFile, outFile0, img, bands, rgb_img, bands_new,
                   brightened, glow, final, stdout, exitCode, writes, calls,
                   done, arg, res>>

\* line 16, the file missing or not an image: Image.open raises
OpenFails ==
    /\ pc = "open"
    /\ inFile.state # "png"
    /\ pc' = "except"
    /\ err' = IF inFile.state = "missing" THEN "FileNotFoundError"
              ELSE "UnidentifiedImageError"
    /\ UNCHANGED <<inFile, outFile, outFile0, img, bands, rgb_img, bands_new,
                   brightened, glow, final, stdout, exitCode, writes, calls,
                   done, arg, res>>

\* line 19: r, g, b, a = img.split()
ChannelSplit ==
    /\ pc = "split"
    /\ bands' = Split(img)
    /\ Step("split")
    /\ UNCHANGED <<inFile, outFile, outFile0, img, rgb_img, bands_new,
                   brightened, glow, final, stdout, exitCode, writes, calls,
                   err, arg, res>>

\* line 22: rgb_img = Image.merge('RGB', (r, g, b))
MergeRGB ==
    /\ pc = "merge_rgb"
    /\ MergeOK("RGB", SubSeq(bands, 1, 3))
    /\ rgb_img' = Merge("RGB", SubSeq(bands, 1, 3))
    /\ Step("merge_rgb")
    /\ UNCHANGED <<inFile, outFile, outFile0, img, bands, bands_new,
                   brightened, glow, final, stdout, exitCode, writes, calls,
                   err, arg, res>>

\* lines 25-26: ImageEnhance.Brightness(rgb_img).enhance(1.4)
EnhanceBrightness ==
    /\ pc = "brightness"
    /\ rgb_img' = Brightness(rgb_img, BrightnessFactor)
    /\ Step("brightness")
    /\ UNCHANGED <<inFile, outFile, outFile0, img, bands, bands_new,
                   brightened, glow, final, stdout, exitCode, writes, calls,
                   err, arg, res>>

\* lines 29-30: ImageEnhance.Contrast(rgb_img).enhance(1.3)
EnhanceContrast ==
    /\ pc = "contrast"
    /\ rgb_img' = Contrast(rgb_img, ContrastFactor)
    /\ Step("contrast")
    /\ UNCHANGED <<inFile, outFile, outFile0, img, bands, bands_new,
                   brightened, glow, final, stdout, exitCode, writes, calls,
                   err, arg, res>>

\* lines 33-34: ImageEnhance.Color(rgb_img).enhance(1.5)
EnhanceColor ==
    /\ pc = "color"
    /\ rgb_img' = Color(rgb_img, ColorFactor)
    /\ Step("color")
    /\ UNCHANGED <<inFile, outFile, outFile0, img, bands, bands_new,
                   brightened, glow, final, stdout, exitCode, writes, calls,
                   err, arg, res>>

\* line 37: r_new, g_new, b_new = rgb_img.split()
SplitProcessed ==
    /\ pc = "split_new"
    /\ bands_new' = Split(rgb_img)
    /\ Step("split_new")
    /\ UNCHANGED <<inFile, outFile, outFile0, img, bands, rgb_img,
                   brightened, glow, final, stdout, exitCode, writes, calls,
                   err, arg, res>>


\* the blue plane merged back in place of the alpha plane
MergeRGBAWrongPlane ==
    /\ pc = "merge_rgba"
    /\ brightened' = Merge("RGBA", bands_new \o <<bands[3]>>)
    /\ Step("merge_rgba")
    /\ UNCHANGED <<inFile, outFile, outFile0, img, bands, rgb_img, bands_new,
                   glow, final, stdout, exitCode, writes, calls, err, arg, res>>

\* line 40: brightened = Image.merge('RGBA', (r_new, g_new, b_new, a))
MergeRGBA ==
    /\ pc = "merge_rgba"
    /\ MergeOK("RGBA", bands_new \o <<bands[4]>>)
    /\ brightened' = Merge("RGBA", bands_new \o <<bands[4]>>)
    /\ Step("merge_rgba")
    /\ UNCHANGED <<inFile, outFile, outFile0, img, bands, rgb_img, bands_new,
                   glow, final, stdout, exitCode, writes, calls, err, arg, res>>

\* line 44: glow = brightened.copy()
CopyGlow ==
    /\ pc = "copy"
    /\ glow' = brightened
    /\ Step("copy")
    /\ UNCHANGED <<inFile, outFile, outFile0, img, bands, rgb_img, bands_new,
                   brightened, final, stdout, exitCode, writes, calls, err,
                   arg, res>>

\* line 45: glow = glow.filter(ImageFilter.GaussianBlur(radius=4))
BlurGlow ==
    /\ pc = "blur"
    /\ glow' = GaussianBlur(glow)
    /\ Step("blur")
    /\ UNCHANGED <<inFile, outFile, outFile0, img, bands, rgb_img, bands_new,
                   brightened, final, stdout, exitCode, writes, calls, err,
                   arg, res>>

\* line 48: final = Image.alpha_composite(glow, brightened)
Composite ==
    /\ pc = "composite"
    /\ CompositeOK(glow, brightened)
    /\ final' = AlphaComposite(glow, brightened)
    /\ Step("composite")
    /\ UNCHANGED <<inFile, outFile, outFile0, img, bands, rgb_img, bands_new,
                   brightened, glow, stdout, exitCode, writes, calls, err,
                   arg, res>>


\* a save that returns without having written the file
SaveSkipped ==
    /\ pc = "save"
    /\ Step("save")
    /\ UNCHANGED <<inFile, outFile, outFile0, img, bands, rgb_img, bands_new,
                   brightened, glow, final, stdout, exitCode, writes, calls,
                   err, arg, res>>

\* line 51: final.save(output_path, 'PNG', optimize=True)
Save ==
    /\ pc = "save"
    /\ outFile' = [state |-> "png", data |-> final]
    /\ writes' = writes + 1
    /\ Step("save")
    /\ UNCHANGED <<inFile, outFile0, img, bands, rgb_img, bands_new,
                   brightened, glow, final, stdout, exitCode, calls, err,
                   arg, res>>

\* line 51, the output path cannot be opened for writing: nothing is written
SaveCannotOpen ==
    /\ pc = "save"
    /\ pc' = "except"
    /\ err' = "OSError"
    /\ UNCHANGED <<inFile, outFile, outFile0, img, bands, rgb_img, bands_new,
                   brightened, glow, final, stdout, exitCode, writes, calls,
                   done, arg, res>>

\* line 51, the encoder fails after the file was opened: the file is left
\* truncated, or removed again if save had created it
SaveEncodeFails ==
    /\ pc = "save"
    /\ pc' = "except"
    /\ err' = "OSError"
    /\ writes' = writes + 1
    /\ \E st \in (IF outFile.state = "absent" THEN {"absent", "partial"}
                  ELSE {"partial"}) :
           outFile' = [state |-> st, data |-> NoImage]
    /\ UNCHANGED <<inFile, outFile0, img, bands, rgb_img, bands_new,
                   brightened, glow, final, stdout, exitCode, calls, done,
                   arg, res>>

\* the line each print statement of lines 52-56 writes
LineOf(p) ==
    CASE p = "print_success" -> "[SUCCESS]"
      [] p = "print_brightness" -> "Brightness: 1.4x"
      [] p = "print_contrast" -> "Contrast: 1.3x"
      [] p = "print_saturation" -> "Saturation: 1.5x"
      [] p = "print_glow" -> "Glow: 4px"
      [] OTHER -> ""

\* lines 52-56: print(...)
PrintLine ==
    /\ LineOf(pc) # ""
    /\ stdout' = Append(stdout, LineOf(pc))
    /\ pc' = Succ(pc)
    /\ UNCHANGED <<inFile, outFile, outFile0, img, bands, rgb_img, bands_new,
                   brightened, glow, final, exitCode, writes, calls, done,
                   err, arg, res>>

\* a statement of brighten_icon raises an exception it was not expected to
\* (out of memory, an I/O error on standard output, ...)
Raise ==
    /\ pc \in BodyPcs \ {"return"}
    /\ pc' = "except"
    /\ err' = "Exception"
    /\ UNCHANGED <<inFile, outFile, outFile0, img, bands, rgb_img, bands_new,
                   brightened, glow, final, stdout, exitCode, writes, calls,
                   done, arg, res>>

\* brighten_icon returns; the script ends and the process exits with 0
Return ==
    /\ pc = "return"
    /\ pc' = "exited"
    /\ exitCode' = 0
    /\ UNCHANGED <<inFile, outFile, outFile0, img, bands, rgb_img, bands_new,
                   brightened, glow, final, stdout, writes, calls, done, err,
                   arg, res>>

\* lines 64-65: except Exception as e: print(f"[ERROR] {e}")
\* (the handler's own print is taken to complete)
Handler ==
    /\ pc = "except"
    /\ stdout' = Append(stdout, "[ERROR]")
    /\ pc' = "sys_exit"
    /\ UNCHANGED <<inFile, outFile, outFile0, img, bands, rgb_img, bands_new,
                   brightened, glow, final, exitCode, writes, calls, done,
                   err, arg, res>>


\* a handler that reports the error and lets the script end normally
SysExitZero ==
    /\ pc = "sys_exit"
    /\ pc' = "exited"
    /\ exitCode' = 0
    /\ UNCHANGED <<inFile, outFile, outFile0, img, bands, rgb_img, bands_new,
                   brightened, glow, final, stdout, writes, calls, done, err,
                   arg, res>>

\* line 66: sys.exit(1)
SysExit ==
    /\ pc = "sys_exit"
    /\ pc' = "exited"
    /\ exitCode' = 1
    /\ UNCHANGED <<inFile, outFile, outFile0, img, bands, rgb_img, bands_new,
                   brightened, glow, final, stdout, writes, calls, done, err,
                   arg, res>>

Next ==
    \/ Call
    \/ Open
    \/ OpenFails
    \/ ChannelSplit
    \/ MergeRGB
    \/ EnhanceBrightness
    \/ EnhanceContrast
    \/ EnhanceColor
    \/ SplitProcessed
    \/ MergeRGBA
    \/ CopyGlow
    \/ BlurGlow
    \/ Composite
    \/ Save
    \/ SaveCannotOpen
    \/ SaveEncodeFails
    \/ PrintLine
    \/ Raise
    \/ Return
    \/ Handler
    \/ SysExit

Spec == Init /\ [][Next]_vars

(***************************************************************************)
(* Properties of the run.                                                  *)
(***************************************************************************)
\* the stages of brighten_icon, decode to save
StageOrder == SubSeq(BodyOrder, 1, 12)

SuccessLines ==
    <<"[SUCCESS]", "Brightness: 1.4x", "Contrast: 1.3x", "Saturation: 1.5x",
      "Glow: 4px">>

IsSet(im) == im.mode # "none"

InStdout(line) == \E i \in 1 .. Len(stdout) : stdout[i] = line

\* C1: the alpha plane split off the converted input is the plane held aside
\* during the enhancements and the plane of the enhanced image: every pixel
\* of brightened has the alpha of the converted input, so alpha 0 stays 0.
C1_AlphaPreserved ==
    /\ Len(bands) = 4 => bands[4] = GetBand(ConvertRGBA(inFile.data), 4)
    /\ IsSet(brightened) =>
          /\ SameSize(brightened, img)
          /\ \A p \in Pos(img.w, img.h) :
                /\ brightened.px[p][4] = ConvertRGBA(inFile.data).px[p][4]
                /\ img.px[p][4] = 0 => brightened.px[p][4] = 0

\* the enhanced image exists, its colours differ from the input's, and the
\* input has a transparent and a half-transparent pixel
C1_Witness ==
    /\ IsSet(brightened)
    /\ \E p, q, r \in Pos(img.w, img.h) :
          /\ img.px[p][4] = 0
          /\ img.px[q][4] = 128
          /\ SubSeq(brightened.px[r], 1, 3) # SubSeq(img.px[r], 1, 3)

\* C2: the stages run in the one fixed order, none skipped or repeated, each
\* on the output of the one before: the stages done so far are always a
\* prefix of StageOrder, a run that returns has done them all, and the
\* images produced are those of the composed pipeline with factors 1.4,
\* 1.3, 1.5 and blur radius 4.
C2_FixedOrder ==
    /\ Len(done) <= Len(StageOrder)
    /\ done = SubSeq(StageOrder, 1, Len(done))
    /\ pc = "copy" => brightened = Enhanced(img, BrightnessFactor)
    /\ pc = "save" =>
          final = PipelineOutput(ConvertRGBA(inFile.data), BrightnessFactor)
    /\ exitCode = 0 =>
          /\ done = StageOrder
          /\ outFile = [state |-> "png", data |-> final]

\* a run that returned, on an image with more than one pixel
C2_Witness ==
    /\ pc = "exited"
    /\ exitCode = 0
    /\ done = StageOrder
    /\ img.w * img.h > 1

\* C3: with a missing or undecodable input the run prints an error line,
\* exits with a non-zero status, and the output path is as it was before the
\* run: no stage ran and nothing was written.
C3_MissingInput ==
    inFile.state # "png" =>
        /\ outFile = outFile0
        /\ writes = 0
        /\ done = <<>>
        /\ exitCode # 0
        /\ pc = "exited" => exitCode = 1 /\ stdout = <<"[ERROR]">>

\* the run has ended on a missing input, no output file before or after
C3_Witness ==
    /\ pc = "exited"
    /\ inFile.state = "missing"
    /\ outFile0.state = "absent"
    /\ outFile.state = "absent"

\* C4: the exit code is 0 exactly when brighten_icon returned without
\* raising; an exception raised by any statement of it ends in an error line
\* on standard output and exit code 1, and brighten_icon is called once.
C4_ExitCode ==
    /\ calls <= 1
    /\ pc = "exited" =>
          /\ calls = 1
          /\ exitCode = 0 <=> err = ""
          /\ err = "" => done = StageOrder /\ stdout = SuccessLines
          /\ err # "" =>
                /\ exitCode = 1
                /\ Len(stdout) > 0
                /\ stdout[Len(stdout)] = "[ERROR]"
                /\ \A i \in 1 .. Len(stdout) - 1 : stdout[i] # "[ERROR]"

\* an exception raised while the success lines were being printed
C4_Witness ==
    /\ pc = "exited"
    /\ err = "Exception"
    /\ Len(stdout) = 3
    /\ stdout[1] = "[SUCCESS]"
    /\ exitCode = 1

AllImages ==
    {img, rgb_img, brightened, glow, final}
        \cup {bands[i] : i \in 1 .. Len(bands)}
        \cup {bands_new[i] : i \in 1 .. Len(bands_new)}

\* C5: every image the run holds, and the saved file, has the width and
\* height of the input; glow and brightened agree when they are composited.
C5_Dimensions ==
    /\ \A im \in AllImages : IsSet(im) => SameSize(im, inFile.data)
    /\ outFile.state = "png" => SameSize(outFile.data, inFile.data)
    /\ pc = "composite" => SameSize(glow, brightened)

\* a saved image that is not square
C5_Witness ==
    /\ outFile.state = "png"
    /\ inFile.data.w = 1
    /\ inFile.data.h = 3
    /\ IsSet(glow)

\* C10: the output path is written at most once and only after the
\* composite, the success line is printed only after save has returned with
\* the composited image on disk, a run that fails before save leaves the
\* output path as it was, and the input file never changes.
C10_WriteOnce ==
    /\ [](/\ writes <= 1
          /\ writes > 0 => IsSet(final) /\ Len(done) >= Len(StageOrder) - 1
          /\ Len(done) < Len(StageOrder) - 1 => outFile = outFile0 /\ writes = 0
          /\ InStdout("[SUCCESS]") =>
                /\ done = StageOrder
                /\ writes = 1
                /\ outFile = [state |-> "png", data |-> final])
    /\ [][inFile' = inFile]_vars

\* the success line is on standard output and the file is on disk
C10_Witness ==
    /\ InStdout("[SUCCESS]")
    /\ outFile.state = "png"
    /\ outFile0.state = "stale"

(***************************************************************************)
(* Image.alpha_composite on sampled pixel pairs, beside the run.           *)
(***************************************************************************)
Channels == 0 .. MaxChannel

AlphaLevels == {0, 1, 64, 127, 128, 200, 254, 255}

ColourLevels == {0, 1, 127, 128, 254, 255}

\* (destination, source) pairs: every pair of alphas on one pair of colours,
\* every opaque source value over three destinations, and sampled colours
\* under sampled alphas
PixelPairs ==
    {<<<<0, 75, 127, da>>, <<0, 150, 255, sa>>>> : da \in Channels, sa \in Channels}
        \cup {<<d, <<sc, MaxChannel - sc, 150, MaxChannel>>>> :
                 sc \in Channels,
                 d \in {<<0, 0, 0, 0>>, <<255, 255, 255, 255>>, <<10, 200, 77, 128>>}}
        \cup {<<<<dc, 0, 255, da>>, <<sc, 255, 0, sa>>>> :
                 dc \in ColourLevels, sc \in ColourLevels,
                 da \in AlphaLevels, sa \in AlphaLevels}

\* the script is not running: only arg and res are in use
Idle ==
    /\ pc = "idle"
    /\ inFile = [state |-> "missing", data |-> NoImage]
    /\ outFile = [state |-> "absent", data |-> NoImage]
    /\ outFile0 = outFile
    /\ img = NoImage
    /\ bands = <<>>
    /\ rgb_img = NoImage
    /\ bands_new = <<>>
    /\ brightened = NoImage
    /\ glow = NoImage
    /\ final = NoImage
    /\ stdout = <<>>
    /\ exitCode = -1
    /\ writes = 0
    /\ calls = 0
    /\ done = <<>>
    /\ err = ""

InitPixel ==
    /\ Idle
    /\ \E pp \in PixelPairs : arg = [set |-> TRUE, dst |-> pp[1], src |-> pp[2]]
    /\ res = NoArg

\* line 48 on one pixel: ImagingAlphaComposite(dst, src)
ApplyComposite ==
    /\ pc = "idle"
    /\ arg.set
    /\ ~res.set
    /\ res' = [set |-> TRUE, out |-> CompositePixel(arg.dst, arg.src)]
    /\ UNCHANGED <<pc, inFile, outFile, outFile0, img, bands, rgb_img,
                   bands_new, brightened, glow, final, stdout, exitCode,
                   writes, calls, done, err, arg>>

InitComposite == Init \/ InitPixel

NextComposite == Next \/ ApplyComposite

SpecComposite == InitComposite /\ [][NextComposite]_vars

\* every (destination, source, result) triple at hand: the pixels of the
\* run's composite, or the sampled pair
Composited ==
    (IF IsSet(final)
       THEN {<<glow.px[p], brightened.px[p], final.px[p]>> : p \in Pos(final.w, final.h)}
       ELSE {})
      \cup (IF res.set THEN {<<arg.dst, arg.src, res.out>>} ELSE {})

Abs(x) == IF x < 0 THEN -x ELSE x

\* the result's alpha is src + dst * (1 - src), to the nearest 8-bit value
OverAlpha(dst, src, out) ==
    2 * Abs(out[4] * MaxChannel
              - (src[4] * MaxChannel + dst[4] * (MaxChannel - src[4])))
        <= MaxChannel

\* the statement of C6: the stored colour is the premultiplied sum
\* src * srcA + dst * dstA * (1 - srcA), to within one 8-bit step
OverPremultiplied(dst, src, out) ==
    \A c \in 1 .. 3 :
        Abs(out[c] * MaxChannel * MaxChannel
              - (src[c] * src[4] * MaxChannel
                   + dst[c] * dst[4] * (MaxChannel - src[4])))
            <= MaxChannel * MaxChannel

\* the stored colour is that sum divided by the result's alpha, to within
\* one 8-bit step; a pixel under a fully transparent source is copied
OverStraight(dst, src, out) ==
    IF src[4] = 0 THEN out = dst
    ELSE LET outa255 == src[4] * MaxChannel + dst[4] * (MaxChannel - src[4])
         IN \A c \in 1 .. 3 :
                Abs(out[c] * outa255
                      - (src[c] * src[4] * MaxChannel
                           + dst[c] * dst[4] * (MaxChannel - src[4])))
                    <= outa255

\* C6 as stated: enhanced over glow, the stored colour of every visible
\* result pixel being enhancedColor * enhancedAlpha + glowColor * glowAlpha
\* * (1 - enhancedAlpha).
C6_Premultiplied ==
    \A t \in Composited :
        /\ OverAlpha(t[1], t[2], t[3])
        /\ t[3][4] > 0 => OverPremultiplied(t[1], t[2], t[3])

\* C6, amended: the composite draws enhanced (source) over glow
\* (destination); the result's alpha is enhancedAlpha + glowAlpha * (1 -
\* enhancedAlpha) and its colour is (enhancedColor * enhancedAlpha +
\* glowColor * glowAlpha * (1 - enhancedAlpha)) / resultAlpha, as 8-bit
\* values; where enhancedAlpha is 0 the glow pixel is copied.
C6_Straight ==
    \A t \in Composited :
        OverAlpha(t[1], t[2], t[3]) /\ OverStraight(t[1], t[2], t[3])

\* the run composited a half-transparent enhanced pixel over a glow pixel of
\* another colour
C6_Witness ==
    /\ IsSet(final)
    /\ \E p \in Pos(final.w, final.h) :
          /\ brightened.px[p][4] = 128
          /\ glow.px[p][4] > 0
          /\ SubSeq(glow.px[p], 1, 3) # SubSeq(brightened.px[p], 1, 3)

\* C7: where the enhanced pixel is opaque the composited pixel is the
\* enhanced pixel, whatever the glow pixel; for a fully opaque input the
\* final image is the enhanced image.
C7_OpaqueNoOp ==
    /\ \A t \in Composited : t[2][4] = MaxChannel => t[3] = t[2]
    /\ (IsSet(final) /\ \A p \in Pos(img.w, img.h) : img.px[p][4] = MaxChannel)
          => final = brightened

\* an opaque enhanced pixel was composited over a different glow pixel
C7_Witness ==
    /\ IsSet(final)
    /\ \E p \in Pos(final.w, final.h) :
          /\ brightened.px[p][4] = MaxChannel
          /\ glow.px[p] # brightened.px[p]
          /\ glow.px[p][4] > 0

\* C8: a pixel transparent in the input is transparent in the output
\* exactly when the glow is transparent there, and no output pixel has less
\* alpha than the enhanced pixel.
C8_TransparentAlpha ==
    /\ \A t \in Composited :
          /\ t[3][4] >= t[2][4]
          /\ t[2][4] = 0 => t[3][4] = t[1][4]
    /\ IsSet(final) =>
          \A p \in Pos(img.w, img.h) :
              img.px[p][4] = 0 =>
                  /\ brightened.px[p][4] = 0
                  /\ final.px[p][4] = 0 <=> glow.px[p][4] = 0

\* a pixel transparent in the input that the glow made visible
C8_Witness ==
    /\ IsSet(final)
    /\ \E p \in Pos(img.w, img.h) : img.px[p][4] = 0 /\ final.px[p][4] > 0

(***************************************************************************)
(* The pipeline under two brightness factors.                              *)
(***************************************************************************)
\* brightness factors tried, in units of 1 / FactorDen
Factors == {10, 14, 15}

\* opaque greys, dark and light: on an opaque image the output is the
\* enhanced image
PaletteBright ==
    {<<1, 1, 1, 255>>, <<2, 2, 2, 255>>, <<200, 200, 200, 255>>}

InitBright ==
    /\ Idle
    /\ \E im \in ImagesOver("RGBA", PaletteBright) :
          \E f1, f2 \in Factors :
              /\ f1 < f2
              /\ arg = [set |-> TRUE, im |-> im, f1 |-> f1, f2 |-> f2]
    /\ res = NoArg

\* lines 19-48 run with brightness factor f1 and again with f2
ApplyFactors ==
    /\ pc = "idle"
    /\ arg.set
    /\ ~res.set
    /\ res' = [set |-> TRUE,
               b1 |-> Brightness(WorkingRGB(arg.im), arg.f1),
               b2 |-> Brightness(WorkingRGB(arg.im), arg.f2),
               out1 |-> PipelineOutput(arg.im, arg.f1),
               out2 |-> PipelineOutput(arg.im, arg.f2)]
    /\ UNCHANGED <<pc, inFile, outFile, outFile0, img, bands, rgb_img,
                   bands_new, brightened, glow, final, stdout, exitCode,
                   writes, calls, done, err, arg>>

NextBright == ApplyFactors

SpecBright == InitBright /\ [][NextBright]_vars

\* sum over the pixels of the ITU-R 601-2 luminance, scaled by 65536
LumaSum(im) ==
    SumOver([p \in Pos(im.w, im.h) |->
                im.px[p][1] * 19595 + im.px[p][2] * 38470 + im.px[p][3] * 7471],
            Pos(im.w, im.h))

\* C9 as stated: a larger brightness factor never gives the pipeline's
\* output a smaller mean luminance.
C9_OutputMonotone ==
    res.set => LumaSum(res.out2) >= LumaSum(res.out1)

\* C9, amended: a larger brightness factor never decreases any channel of
\* any pixel of the brightness stage's output, clamped to [0, 255], and so
\* never the mean luminance of that stage's output.
C9_BrightnessMonotone ==
    res.set =>
        /\ \A p \in Pos(arg.im.w, arg.im.h) :
              \A c \in 1 .. 3 :
                  /\ res.b2.px[p][c] >= res.b1.px[p][c]
                  /\ res.b2.px[p][c] <= MaxChannel
        /\ LumaSum(res.b2) >= LumaSum(res.b1)

\* one channel clamped at 255 under both factors, another strictly raised
C9_Witness ==
    /\ res.set
    /\ \E p, q \in Pos(arg.im.w, arg.im.h) :
          /\ arg.im.px[p][3] * arg.f1 > MaxChannel * FactorDen
          /\ res.b1.px[p][3] = MaxChannel
          /\ res.b2.px[p][3] = MaxChannel
          /\ res.b2.px[q][2] > res.b1.px[q][2]

====
